---------------------------- MODULE Spec2Model ----------------------------
(***************************************************************************)
(* LifeEmbedding: the serving process (backend/main.py) and the training   *)
(* pipeline (scripts/dim_reduction.py) over the artifacts they share: the  *)
(* coordinates table, the local coordinate file and the two pickled        *)
(* reduction models.                                                       *)
(*                                                                         *)
(* A model, a file or a table row set is identified by the number of the   *)
(* training run that produced it (0: none).  Calls into libraries and      *)
(* services outside the repository (BigQuery, pickle, sklearn, umap,       *)
(* Vertex AI) either return a value in their documented range or raise;    *)
(* which of the two is a nondeterministic choice of each action.           *)
(***************************************************************************)
EXTENDS Integers, Sequences, FiniteSets, TLC

(* ------------------------------ bounds -------------------------------- *)
MaxRuns == 2
MaxLoads == 2
MaxN == 3
MaxK == 2
MaxScore == 1
MaxPoints == 6
MaxKTried == 5
MaxCoord == 2
Scale == 10

(* ------------------------- program constants -------------------------- *)
DefaultNClusters == 8
DefaultMaxK == 15
DefaultClusters == 10
EMBEDDING_DIMENSION == 768
TopK == 10
max_distance == 20
TopOccupations == 3

VARIABLES
    \* persisted artifacts, shared by the two processes
    corpus,            \* embeddings JOIN persons: one occupation list per person
    table,             \* coordinates_3d table: [run, count] of its rows
    coords_file,       \* data/processed/coordinates_3d.json: [run, whole]
    pca_file,          \* data/processed/pca_model.pkl: [run, whole]
    umap_file,         \* data/processed/umap_model.pkl: [run, whole]
    \* dim_reduction.py: main() and the DimensionalityReducer it builds
    tpc,               \* position of the pipeline
    run,               \* number of the current (or last) training run
    clusters_arg,      \* args.clusters
    embeddings_data,   \* self.embeddings_data
    pca_model,         \* self.pca_model
    umap_model,        \* self.umap_model
    n_clusters,        \* self.n_clusters
    optimal_k,         \* what determine_optimal_clusters returned (0: not called)
    cluster_labels,    \* self.cluster_labels
    cluster_label_map, \* cluster_label_map of save_coordinates_to_bigquery
    records,           \* records of save_coordinates_to_bigquery
    bq_result,         \* which path save_coordinates_to_bigquery took
    num_inserted,      \* num_inserted of run_full_pipeline
    saved_locally,     \* hasattr(self, '_coordinates_saved_locally')
    local_writes,      \* completed writes of the local file in this run
    train_error,       \* the exception that ended the run ("" when none)
    \* backend/main.py
    lpc,               \* position of startup_event
    loads,             \* invocations of startup_event so far
    _models_loaded,
    _pca_model,
    _umap_model,
    es_pca_model,      \* embedding_service.pca_model
    es_umap_model,     \* embedding_service umap model
    load_fault,        \* what went wrong in the last startup_event ("" when nothing)
    response,          \* outcome of the last generate-embedding request
    answered,          \* per vector: the load under which it was last
                       \* answered (0: never), the coordinates returned, and
                       \* the run of the PCA file when it was first and
                       \* last answered under that load
    \* a function of the pipeline called on its own
    call               \* its name and arguments and, once applied, its result

store_vars == <<corpus, table, coords_file, pca_file, umap_file>>
train_vars == <<tpc, run, clusters_arg, embeddings_data, pca_model, umap_model,
                n_clusters, optimal_k, cluster_labels, cluster_label_map,
                records, bq_result, num_inserted, saved_locally, local_writes,
                train_error>>
serve_vars == <<lpc, loads, _models_loaded, _pca_model, _umap_model,
                es_pca_model, es_umap_model, load_fault, response, answered>>
vars == <<store_vars, train_vars, serve_vars, call>>

(* ----------------------------- artifacts ------------------------------ *)
NoFile == [run |-> 0, whole |-> FALSE]
NoTable == [run |-> 0, count |-> 0]
NoCall == [fn |-> "", applied |-> FALSE]

\* The narratives a request can carry, each named by the vector that
\* generate_embedding returns for it.
Vectors == {0, 1}

NoCluster == [cluster_id |-> -1, avg_coordinates |-> <<>>]
NoRequest ==
    [fault |-> "", vector |-> 0, length |-> 0, clusters |-> <<>>,
     all_person_ids |-> <<>>, all_coordinates |-> <<>>, found |-> {}]
NoResponse ==
    [status |-> "", ready |-> FALSE, pca |-> 0, umap |-> 0, table |-> 0,
     request |-> NoRequest, user_coordinates |-> <<>>,
     nearest_cluster |-> NoCluster, similar_persons |-> <<>>]
NeverAnswered ==
    [vector \in Vectors |->
        [loads |-> 0, user_coordinates |-> <<>>, since |-> 0, until |-> 0]]

\* person['occupation'] as the persons table returns it: None or a list
OccChoices == {<<>>, <<"poet">>, <<"poet", "critic">>}

SeqUpTo(S, n) == UNION {[1..m -> S] : m \in 0..n}
\* The corpora of the training pipeline taken alone ...
Corpora == SeqUpTo(OccChoices, MaxN)
\* ... and of the two processes together: no person, or one.
SmallCorpora == {<<>>, <<<<"poet">>>>}


\* The two processes before anything has run, over the given contents of
\* the persons and coordinates tables.
Start(corpora, tables) ==
    /\ corpus \in corpora
    /\ table \in tables
    /\ coords_file = NoFile
    /\ pca_file = NoFile
    /\ umap_file = NoFile
    /\ tpc = "idle"
    /\ run = 0
    /\ clusters_arg = 0
    /\ embeddings_data = <<>>
    /\ pca_model = 0
    /\ umap_model = 0
    /\ n_clusters = DefaultNClusters
    /\ optimal_k = 0
    /\ cluster_labels = <<>>
    /\ cluster_label_map = <<>>
    /\ records = <<>>
    /\ bq_result = ""
    /\ num_inserted = 0
    /\ saved_locally = FALSE
    /\ local_writes = 0
    /\ train_error = ""
    /\ lpc = "idle"
    /\ loads = 0
    /\ _models_loaded = FALSE
    /\ _pca_model = 0
    /\ _umap_model = 0
    /\ es_pca_model = 0
    /\ es_umap_model = 0
    /\ load_fault = ""
    /\ response = NoResponse
    /\ answered = NeverAnswered

InitOver(corpora, tables) ==
    /\ Start(corpora, tables)
    /\ call = NoCall

\* Nothing has been trained yet.
Init == InitOver(SmallCorpora, {NoTable})

\* One training run taken alone: the table is empty, or holds the rows of
\* training done before (which this run does not number).
InitTrain == InitOver(Corpora, {NoTable, [run |-> 0, count |-> 1]})

(* ====================== backend/main.py: startup ====================== *)

\* The except branch of startup_event: the error is printed, the handler
\* returns, and the readiness flag is left as it was.
LoadFailedResets(fault) ==
    /\ lpc' = "idle"
    /\ load_fault' = fault
    /\ _models_loaded' = FALSE

LoadFailedPropagates(fault) ==
    /\ lpc' = "raised"
    /\ load_fault' = fault
    /\ UNCHANGED _models_loaded

LoadFailed(fault) ==
    /\ lpc' = "idle"
    /\ load_fault' = fault
    /\ UNCHANGED _models_loaded

\* os.path.exists(pca_path) and os.path.exists(umap_path).  A file is never
\* removed, so the two tests give what one test of both would.
ModelFilesExist == pca_file.run # 0 /\ umap_file.run # 0

\* startup_event is invoked; limit is how often the process runs it.
StartupCheck(limit) ==
    /\ lpc = "idle"
    /\ loads < limit
    /\ loads' = loads + 1
    /\ IF ModelFilesExist
          THEN lpc' = "load_pca" /\ load_fault' = ""
          ELSE lpc' = "idle" /\ load_fault' = "missing"
    /\ UNCHANGED <<_models_loaded, _pca_model, _umap_model, es_pca_model,
                   es_umap_model, response,
                   answered>>
    /\ UNCHANGED <<store_vars, train_vars, call>>

\* with open(pca_path, 'rb') as f: _pca_model = pickle.load(f)
StartupLoadPca ==
    /\ lpc = "load_pca"
    /\ \/ /\ pca_file.whole
          /\ _pca_model' = pca_file.run
          /\ lpc' = "load_umap"
          /\ UNCHANGED <<load_fault, _models_loaded>>
       \/ /\ LoadFailed("pca")
          /\ UNCHANGED _pca_model
    /\ UNCHANGED <<loads, _umap_model, es_pca_model, es_umap_model, response,
                   answered>>
    /\ UNCHANGED <<store_vars, train_vars, call>>

\* with open(umap_path, 'rb') as f: _umap_model = pickle.load(f)
StartupLoadUmap ==
    /\ lpc = "load_umap"
    /\ \/ /\ umap_file.whole
          /\ _umap_model' = umap_file.run
          /\ lpc' = "handoff"
          /\ UNCHANGED <<load_fault, _models_loaded>>
       \/ /\ LoadFailed("umap")
          /\ UNCHANGED _umap_model
    /\ UNCHANGED <<loads, _pca_model, es_pca_model, es_umap_model, response,
                   answered>>
    /\ UNCHANGED <<store_vars, train_vars, call>>

StartupHandoffFlagFirst ==
    /\ lpc = "handoff"
    /\ _models_loaded' = TRUE
    /\ lpc' = "idle"
    /\ \/ /\ es_pca_model' = _pca_model
          /\ es_umap_model' = _umap_model
          /\ UNCHANGED load_fault
       \/ /\ load_fault' = "handoff"
          /\ UNCHANGED <<es_pca_model, es_umap_model>>
    /\ UNCHANGED <<loads, _pca_model, _umap_model, response, answered>>
    /\ UNCHANGED <<store_vars, train_vars, call>>

\* embedding_service.load_reduction_models(...); _models_loaded = True
StartupHandoff ==
    /\ lpc = "handoff"
    /\ \/ /\ es_pca_model' = _pca_model
          /\ es_umap_model' = _umap_model
          /\ _models_loaded' = TRUE
          /\ lpc' = "idle"
          /\ UNCHANGED load_fault
       \/ /\ LoadFailed("handoff")
          /\ UNCHANGED <<es_pca_model, es_umap_model>>
    /\ UNCHANGED <<loads, _pca_model, _umap_model, response, answered>>
    /\ UNCHANGED <<store_vars, train_vars, call>>

(* ================ backend/main.py: generate-embedding ================= *)

\* Requests reach a handler once the startup handler has returned, and no
\* handler awaits, so a request runs between two steps of no other handler.
Serving == loads >= 1 /\ lpc = "idle"

\* The first call of the handler that raises something other than an
\* HTTPException ("": none does).
QueryFaults == {"", "narrative", "embedding", "project", "database"}

Min(a, b) == IF a < b THEN a ELSE b
Max(a, b) == IF a > b THEN a ELSE b
Abs(x) == IF x < 0 THEN -x ELSE x

\* What a request meets while it is handled: the fault, the vector that
\* generate_embedding returns and its length, and what the queries of the
\* database return: the clusters, the persons with their coordinates, and
\* the persons get_person_by_id finds.
Request(fault, vector, length, db) ==
    [fault |-> fault, vector |-> vector, length |-> length,
     clusters |-> db.clusters, all_person_ids |-> db.all_person_ids,
     all_coordinates |-> db.all_coordinates, found |-> db.found]

\* Two clusters and two persons, each at the same distance from where the
\* vectors are projected to.
DefaultDb ==
    [clusters |-> <<[cluster_id |-> 0, avg_coordinates |-> <<0, 1, 0>>],
                    [cluster_id |-> 1, avg_coordinates |-> <<2, 1, 0>>]>>,
     all_person_ids |-> <<1, 2>>,
     all_coordinates |-> <<<<0, 1, 0>>, <<2, 1, 0>>>>,
     found |-> {1, 2}]

\* The requests of the service beside the training pipeline: one narrative,
\* any fault ...
SmallRequests ==
    {Request(fault, 0, EMBEDDING_DIMENSION, DefaultDb) : fault \in QueryFaults}

\* ... or either narrative, the database failing or not.
RepeatedRequests ==
    {Request(fault, vector, EMBEDDING_DIMENSION, DefaultDb) :
        fault \in {"", "database"}, vector \in Vectors}

\* Where the database places clusters and persons: near the projected
\* vectors, at max_distance from one of them, and beyond.
NearPoints == {<<x, 1, 0>> : x \in 0..MaxCoord}
FarPoints == {<<1 + max_distance, 1, 0>>, <<1 + 2 * max_distance, 1, 0>>}
Points == NearPoints \cup FarPoints

\* One person more than top_k, several to a place.
Crowd == [i \in 1..(TopK + 1) |-> <<i % (MaxCoord + 1), 1, 0>>]

\* get_person_by_id finds every person, or all but the first or the second.
FoundSets(ids) == {ids} \cup {ids \ {i} : i \in ids \cap {1, 2}}

\* No person, one or two, listed by ascending id, or the crowd, listed by
\* descending id.
PersonDbs ==
    UNION {{[DefaultDb EXCEPT
                !.all_person_ids =
                    [i \in 1..Len(points) |->
                        IF points = Crowd THEN Len(points) + 1 - i ELSE i],
                !.all_coordinates = points,
                !.found = found] :
               found \in FoundSets(1..Len(points))} :
           points \in SeqUpTo(Points, 2) \cup {Crowd}}

\* No cluster, one, or two in either order of their ids.
ClusterLists ==
    {<<>>}
    \cup {<<[cluster_id |-> id, avg_coordinates |-> p]>> :
              id \in 0..1, p \in NearPoints}
    \cup {<<[cluster_id |-> id, avg_coordinates |-> p],
            [cluster_id |-> 1 - id, avg_coordinates |-> q]>> :
              id \in 0..1, p \in NearPoints, q \in NearPoints}

ClusterDbs == {[DefaultDb EXCEPT !.clusters = clusters] : clusters \in ClusterLists}

\* The requests of the service taken alone: any fault, a vector one short,
\* and over the databases above.
Requests ==
    SmallRequests
    \cup {Request(fault, vector, EMBEDDING_DIMENSION - 1, DefaultDb) :
              fault \in {"", "project"}, vector \in Vectors}
    \cup {Request("", vector, EMBEDDING_DIMENSION, db) :
              vector \in Vectors, db \in PersonDbs \cup ClusterDbs}

\* What a response shows of a request that got as far as the projection.
Seen(request) == [request EXCEPT !.fault = ""]

\* The squared Euclidean distance, and np.linalg.norm(p - q) in Scale-ths
\* rounded down.
SqDist(p, q) ==
    (p[1] - q[1]) * (p[1] - q[1]) + (p[2] - q[2]) * (p[2] - q[2])
        + (p[3] - q[3]) * (p[3] - q[3])

\* The greatest r in lo..hi with r * r <= x.
RECURSIVE ISqrt(_, _, _)
ISqrt(x, lo, hi) ==
    IF lo = hi THEN lo
    ELSE LET mid == (lo + hi + 1) \div 2
         IN IF mid * mid <= x THEN ISqrt(x, mid, hi) ELSE ISqrt(x, lo, mid - 1)

Distance(p, q) ==
    ISqrt(Scale * Scale * SqDist(p, q), 0,
          Scale * (Abs(p[1] - q[1]) + Abs(p[2] - q[2]) + Abs(p[3] - q[3])))

\* embedding_service.project_to_3d raises on a vector of another length
\* than the models were fit on ...
ProjectRaises(length) == length # EMBEDDING_DIMENSION

\* ... and else returns the transform of the vector under the two models:
\* a point that depends on the PCA model, the UMAP model and the vector, and
\* on nothing else.
project_to_3d(pca, umap, vector) == <<pca, umap, vector>>

\* embedding_service.find_nearest_cluster: the cluster with the nearest
\* centroid, the lowest cluster id among several as near.
find_nearest_cluster(coordinates_3d, clusters) ==
    LET nearer(c, d) ==
            \/ SqDist(coordinates_3d, c.avg_coordinates)
                   < SqDist(coordinates_3d, d.avg_coordinates)
            \/ /\ SqDist(coordinates_3d, c.avg_coordinates)
                      = SqDist(coordinates_3d, d.avg_coordinates)
               /\ c.cluster_id <= d.cluster_id
    IN clusters[CHOOSE i \in 1..Len(clusters) :
                    \A j \in 1..Len(clusters) : nearer(clusters[i], clusters[j])]

\* embedding_service.find_similar_persons: (person_id, distance) of the
\* top_k nearest persons, nearest first, the lower id first among persons as
\* near.
find_similar_persons(coordinates_3d, all_person_ids, all_coordinates, top_k) ==
    LET n == Len(all_person_ids)
        sq == [i \in 1..n |-> SqDist(coordinates_3d, all_coordinates[i])]
        before(i, j) ==
            \/ sq[i] < sq[j]
            \/ sq[i] = sq[j] /\ all_person_ids[i] < all_person_ids[j]
        rank == [j \in 1..n |-> Cardinality({i \in 1..n : before(i, j)})]
        at == [r \in 1..Min(top_k, n) |-> CHOOSE j \in 1..n : rank[j] = r - 1]
    IN [r \in 1..Min(top_k, n) |->
            [person_id |-> all_person_ids[at[r]],
             distance |-> Distance(coordinates_3d, all_coordinates[at[r]])]]

similarity_score_unclamped(distance) == Scale * max_distance - distance

\* max(0.0, 1.0 - (distance / max_distance)), in (Scale * max_distance)-ths
similarity_score(distance) == Max(0, Scale * max_distance - distance)

RECURSIVE SimilarPersonsPrepended(_, _)
SimilarPersonsPrepended(similar_persons_data, found) ==
    IF similar_persons_data = <<>> THEN <<>>
    ELSE LET first == Head(similar_persons_data)
             rest == SimilarPersonsPrepended(Tail(similar_persons_data), found)
         IN IF first.person_id \in found
               THEN rest \o
                    <<[person_id |-> first.person_id,
                       distance |-> first.distance,
                       similarity_score |-> similarity_score(first.distance)]>>
               ELSE rest

\* The loop over similar_persons_data: a SimilarPerson is appended for every
\* entry whose person get_person_by_id finds.
RECURSIVE SimilarPersons(_, _)
SimilarPersons(similar_persons_data, found) ==
    IF similar_persons_data = <<>> THEN <<>>
    ELSE LET first == Head(similar_persons_data)
             rest == SimilarPersons(Tail(similar_persons_data), found)
         IN IF first.person_id \in found
               THEN <<[person_id |-> first.person_id,
                       distance |-> first.distance,
                       similarity_score |-> similarity_score(first.distance)]>>
                    \o rest
               ELSE rest

\* db.get_clusters_info(): nothing while the table has no rows.
Clusters(request) == IF table.count = 0 THEN <<>> ELSE request.clusters

NearestClusterFirst(coordinates_3d, clusters) == clusters[1]

\* nearest_cluster of the handler
NearestCluster(coordinates_3d, clusters) ==
    find_nearest_cluster(coordinates_3d, clusters)

Unavailable == [NoResponse EXCEPT !.status = "503", !.ready = _models_loaded]
InternalError(seen) ==
    [NoResponse EXCEPT !.status = "500", !.ready = _models_loaded,
                       !.request = seen]
Answer(request) ==
    LET coordinates_3d ==
            project_to_3d(es_pca_model, es_umap_model, request.vector)
        empty == table.count = 0
        similar_persons_data ==
            find_similar_persons(
                coordinates_3d,
                IF empty THEN <<>> ELSE request.all_person_ids,
                IF empty THEN <<>> ELSE request.all_coordinates,
                TopK)
    IN [status |-> "200", ready |-> _models_loaded, pca |-> es_pca_model,
        umap |-> es_umap_model, table |-> table.run, request |-> Seen(request),
        user_coordinates |-> coordinates_3d,
        nearest_cluster |-> NearestCluster(coordinates_3d, Clusters(request)),
        similar_persons |-> SimilarPersons(similar_persons_data, request.found)]

\* The try block of the handler with its two except clauses.  Without a
\* cluster nearest_cluster['cluster_id'] raises.
HandlerBody(request) ==
    IF request.fault \in {"narrative", "embedding"} THEN InternalError(NoRequest)
    ELSE IF es_pca_model = 0 THEN Unavailable
    ELSE IF request.fault = "project" \/ ProjectRaises(request.length)
       THEN InternalError(Seen(request))
    ELSE IF request.fault = "database" THEN InternalError(Seen(request))
    ELSE IF Clusters(request) = <<>> THEN InternalError(Seen(request))
    ELSE Answer(request)

RespondUnguarded(request) == HandlerBody(request)

Respond(request) ==
    IF ~_models_loaded THEN Unavailable ELSE HandlerBody(request)

HandlerLoadsModels ==
    /\ es_pca_model' = IF pca_file.whole THEN pca_file.run ELSE es_pca_model
    /\ es_umap_model' = IF umap_file.whole THEN umap_file.run ELSE es_umap_model
    /\ UNCHANGED <<lpc, loads, _models_loaded, _pca_model, _umap_model,
                   load_fault>>

\* The handler assigns to no global and calls nothing that sets a model.
HandlerLeaves ==
    UNCHANGED <<lpc, loads, _models_loaded, _pca_model, _umap_model,
                es_pca_model, es_umap_model, load_fault>>

\* One request handled.
Handle(requests) ==
    /\ Serving
    /\ \E request \in requests :
          /\ response' = Respond(request)
          /\ answered' =
                 IF response'.status = "200"
                    THEN [answered EXCEPT
                             ![request.vector] =
                                 [loads |-> loads,
                                  user_coordinates |->
                                      response'.user_coordinates,
                                  since |->
                                      IF answered[request.vector].loads = loads
                                         THEN answered[request.vector].since
                                         ELSE pca_file.run,
                                  until |-> pca_file.run]]
                    ELSE answered
    /\ HandlerLeaves
    /\ UNCHANGED <<store_vars, train_vars, call>>

generate_user_embedding == Handle(SmallRequests)

(* ================= scripts/dim_reduction.py: helpers ================== *)

\* range(2, min(max_k + 1, len(self.coordinates_3d)))
k_range(max_k, n) == 2..(Min(max_k + 1, n) - 1)

\* inertias and silhouette_scores are lists with one entry per k of the
\* range, in its order; here they are functions of k, entry i being k = i + 2.

\* np.argmax(np.abs(np.diff(np.diff(inertias)))) + 2 when there are more
\* than two entries, else 2.
optimal_k_elbow(ks, inertias) ==
    IF Cardinality(ks) > 2
       THEN LET second_derivatives ==
                    [k \in {j \in ks : j + 2 \in ks} |->
                        (inertias[k + 2] - inertias[k + 1])
                            - (inertias[k + 1] - inertias[k])]
                at == DOMAIN second_derivatives
            IN CHOOSE k \in at :
                   \A j \in at :
                       \/ Abs(second_derivatives[j]) < Abs(second_derivatives[k])
                       \/ /\ Abs(second_derivatives[j]) = Abs(second_derivatives[k])
                          /\ j >= k
       ELSE 2

\* np.argmax(silhouette_scores) + 2: the first k of the range with the
\* highest score.
optimal_k_silhouette(ks, silhouette_scores) ==
    CHOOSE k \in ks :
        \A j \in ks :
            \/ silhouette_scores[j] < silhouette_scores[k]
            \/ silhouette_scores[j] = silhouette_scores[k] /\ j >= k

determine_optimal_clusters_by_elbow(max_k, n, inertias, silhouette_scores) ==
    optimal_k_elbow(k_range(max_k, n), inertias)

\* optimal_k = optimal_k_silhouette; the elbow is only printed.
determine_optimal_clusters(max_k, n, inertias, silhouette_scores) ==
    LET elbow == optimal_k_elbow(k_range(max_k, n), inertias)
        silhouette == optimal_k_silhouette(k_range(max_k, n), silhouette_scores)
    IN silhouette

\* The occupations of the members of cluster_id, person after person.
RECURSIVE OccupationsFrom(_, _, _, _)
OccupationsFrom(i, cluster_id, labels, data) ==
    IF i > Len(data) THEN <<>>
    ELSE (IF labels[i] = cluster_id THEN data[i] ELSE <<>>)
             \o OccupationsFrom(i + 1, cluster_id, labels, data)

\* occupation_counts.get(occ, 0) after the loop
CountOf(occ, occs) == Cardinality({j \in 1..Len(occs) : occs[j] = occ})

\* The keys of occupation_counts in the order of their insertion.
RECURSIVE KeysOf(_)
KeysOf(occs) ==
    IF occs = <<>> THEN <<>>
    ELSE LET before == KeysOf(SubSeq(occs, 1, Len(occs) - 1))
             last == occs[Len(occs)]
         IN IF \E j \in 1..Len(before) : before[j] = last
               THEN before
               ELSE Append(before, last)

\* sorted(occupation_counts.items(), key=lambda x: x[1], reverse=True):
\* a stable sort, so keys of equal count keep their insertion order.
SortedByCount(keys, occs) ==
    LET before(m, j) ==
            \/ CountOf(keys[m], occs) > CountOf(keys[j], occs)
            \/ CountOf(keys[m], occs) = CountOf(keys[j], occs) /\ m < j
        rank(j) == Cardinality({m \in 1..Len(keys) : before(m, j)})
    IN [r \in 1..Len(keys) |->
            keys[CHOOSE j \in 1..Len(keys) : rank(j) = r - 1]]

\* ", ".join(...)
RECURSIVE Join(_)
Join(names) ==
    IF Len(names) = 0 THEN ""
    ELSE IF Len(names) = 1 THEN names[1]
    ELSE names[1] \o ", " \o Join(Tail(names))

top_occupations_unsorted(cluster_id, labels, data) ==
    LET keys == KeysOf(OccupationsFrom(1, cluster_id, labels, data))
    IN SubSeq(keys, 1, Min(TopOccupations, Len(keys)))

\* sorted_occupations[:3], names only
top_occupations(cluster_id, labels, data) ==
    LET occs == OccupationsFrom(1, cluster_id, labels, data)
        sorted == SortedByCount(KeysOf(occs), occs)
    IN SubSeq(sorted, 1, Min(TopOccupations, Len(sorted)))

ClusterLabel(cluster_id, labels, data) ==
    IF OccupationsFrom(1, cluster_id, labels, data) # <<>>
       THEN Join(top_occupations(cluster_id, labels, data))
       ELSE "Cluster " \o ToString(cluster_id)

generate_cluster_labels_off_by_one(k, labels, data) ==
    [cluster_id \in 1..k |-> ClusterLabel(cluster_id, labels, data)]

\* for cluster_id in range(self.n_clusters): cluster_labels[cluster_id] = label
generate_cluster_labels(k, labels, data) ==
    [cluster_id \in 0..(k - 1) |-> ClusterLabel(cluster_id, labels, data)]

\* The records of save_coordinates_to_bigquery, one per person.
Records(labels, label_map) ==
    [i \in 1..Len(labels) |->
        [person_id |-> i, cluster_id |-> labels[i],
         cluster_label |-> label_map[labels[i]]]]

(* ================ scripts/dim_reduction.py: the pipeline =============== *)

Ended == {"complete", "returned", "failed"}

\* An exception leaves run_full_pipeline; main prints it and exits with 1.
Raise(error) ==
    /\ tpc' = "failed"
    /\ train_error' = error

\* main(): parse --clusters, build a DimensionalityReducer, start the
\* pipeline.  cluster_args are the values of --clusters the runs are given.
Main(cluster_args) ==
    /\ tpc \in Ended \cup {"idle"}
    /\ run < MaxRuns
    /\ run' = run + 1
    /\ \E clusters \in cluster_args : clusters_arg' = clusters
    /\ tpc' = "load"
    /\ embeddings_data' = <<>>
    /\ pca_model' = 0
    /\ umap_model' = 0
    /\ n_clusters' = DefaultNClusters
    /\ optimal_k' = 0
    /\ cluster_labels' = <<>>
    /\ cluster_label_map' = <<>>
    /\ records' = <<>>
    /\ bq_result' = ""
    /\ num_inserted' = 0
    /\ saved_locally' = FALSE
    /\ local_writes' = 0
    /\ train_error' = ""
    /\ UNCHANGED <<store_vars, serve_vars, call>>

\* Runs given an explicit count up to MaxK, or 0.
main == Main(0..MaxK)

\* Step 1, and the early return on an empty corpus.
load_embeddings_from_bigquery ==
    /\ tpc = "load"
    /\ \/ /\ embeddings_data' = corpus
          /\ tpc' = IF Len(corpus) = 0 THEN "returned" ELSE "pca"
          /\ UNCHANGED train_error
       \/ /\ Raise("load_embeddings")
          /\ UNCHANGED embeddings_data
    /\ UNCHANGED <<run, clusters_arg, pca_model, umap_model, n_clusters, optimal_k,
                   cluster_labels, cluster_label_map, records, bq_result,
                   num_inserted, saved_locally, local_writes>>
    /\ UNCHANGED <<store_vars, serve_vars, call>>

\* Step 2: the PCA model of this run is fit.
apply_pca ==
    /\ tpc = "pca"
    /\ \/ /\ pca_model' = run
          /\ tpc' = "umap"
          /\ UNCHANGED train_error
       \/ /\ Raise("pca")
          /\ UNCHANGED pca_model
    /\ UNCHANGED <<run, clusters_arg, embeddings_data, umap_model, n_clusters, optimal_k,
                   cluster_labels, cluster_label_map, records, bq_result,
                   num_inserted, saved_locally, local_writes>>
    /\ UNCHANGED <<store_vars, serve_vars, call>>

\* Step 3: the UMAP model is fit on the output of self.pca_model.
apply_umap ==
    /\ tpc = "umap"
    /\ \/ /\ umap_model' = pca_model
          /\ tpc' = "cluster"
          /\ UNCHANGED train_error
       \/ /\ Raise("umap")
          /\ UNCHANGED umap_model
    /\ UNCHANGED <<run, clusters_arg, embeddings_data, pca_model, n_clusters, optimal_k,
                   cluster_labels, cluster_label_map, records, bq_result,
                   num_inserted, saved_locally, local_writes>>
    /\ UNCHANGED <<store_vars, serve_vars, call>>

\* What determine_optimal_clusters() can return over n points: KMeans and
\* silhouette_score give some inertia and some score for each k tried.
OptimalKs(n) ==
    LET ks == k_range(DefaultMaxK, n)
    IN {determine_optimal_clusters(DefaultMaxK, n, inertias, scores) :
           inertias \in [ks -> 0..MaxScore], scores \in [ks -> 0..MaxScore]}

SelectedKAuto(n) ==
    IF k_range(DefaultMaxK, n) = {}
       THEN {}
       ELSE {[n_clusters |-> k, optimal_k |-> k] : k \in OptimalKs(n)}

\* n_clusters = None if args.clusters == 0 else args.clusters (None is 0
\* here); perform_clustering asks determine_optimal_clusters on None only.
SelectedK(n) ==
    IF clusters_arg = 0
       THEN {[n_clusters |-> k, optimal_k |-> k] : k \in OptimalKs(n)}
       ELSE {[n_clusters |-> clusters_arg, optimal_k |-> 0]}

\* KMeans(n_clusters=k).fit_predict: one cluster id below k per point.
KMeansLabels(k, n) == [1..n -> 0..(k - 1)]

\* Step 4.
perform_clustering ==
    /\ tpc = "cluster"
    /\ LET n == Len(embeddings_data)
       IN \/ /\ clusters_arg = 0
             /\ Raise("determine_optimal_clusters")
             /\ UNCHANGED <<n_clusters, optimal_k, cluster_labels>>
          \/ /\ clusters_arg # 0 \/ k_range(DefaultMaxK, n) # {}
             /\ \E selected \in SelectedK(n) :
                   /\ n_clusters' = selected.n_clusters
                   /\ optimal_k' = selected.optimal_k
                   /\ \/ /\ Raise("clustering")
                         /\ UNCHANGED cluster_labels
                      \/ /\ \E labels \in KMeansLabels(selected.n_clusters, n) :
                                cluster_labels' = labels
                         /\ tpc' = "save_bq"
                         /\ UNCHANGED train_error
    /\ UNCHANGED <<run, clusters_arg, embeddings_data, pca_model, umap_model,
                   cluster_label_map, records, bq_result, num_inserted,
                   saved_locally, local_writes>>
    /\ UNCHANGED <<store_vars, serve_vars, call>>

AfterTableSaveAlways(num, saved) == "save_local"

\* Step 6 of run_full_pipeline: whether save_coordinates_locally is called
\* after save_coordinates_to_bigquery has returned num.
AfterTableSave(num, saved) ==
    IF num = 0 \/ ~saved THEN "save_local" ELSE "open_pca"

\* save_coordinates_locally writes the file and sets the attribute.
LocalSaveDone ==
    /\ coords_file' = [run |-> run, whole |-> TRUE]
    /\ saved_locally' = TRUE
    /\ local_writes' = local_writes + 1

\* save_coordinates_locally raises: before the file is opened, or while
\* json.dump writes into the truncated file.
LocalSaveRaises ==
    /\ coords_file' \in {coords_file, [run |-> run, whole |-> FALSE]}
    /\ UNCHANGED <<saved_locally, local_writes>>

\* Step 5.  The label map and the records are built before the try block;
\* a cluster id without a label is a KeyError there.
save_coordinates_to_bigquery ==
    /\ tpc = "save_bq"
    /\ LET label_map ==
               generate_cluster_labels(n_clusters, cluster_labels, embeddings_data)
           labelled == \A i \in 1..Len(cluster_labels) :
                           cluster_labels[i] \in DOMAIN label_map
       IN /\ cluster_label_map' = label_map
          /\ \/ /\ ~labelled
                /\ Raise("KeyError")
                /\ UNCHANGED <<records, table, coords_file, bq_result,
                               num_inserted, saved_locally, local_writes>>
             \/ /\ labelled
                /\ records' = Records(cluster_labels, label_map)
                /\ \/ /\ Raise("bigquery")
                      /\ bq_result' = "raised"
                      /\ UNCHANGED <<table, coords_file, num_inserted,
                                     saved_locally, local_writes>>
                   \* row_count > 0: no insert, the file is written here
                   \/ /\ table.count > 0
                      /\ bq_result' = "skipped"
                      /\ \/ /\ LocalSaveDone
                            /\ num_inserted' = table.count
                            /\ tpc' = AfterTableSave(table.count, TRUE)
                            /\ UNCHANGED train_error
                         \/ /\ LocalSaveRaises
                            /\ Raise("save_locally")
                            /\ UNCHANGED num_inserted
                      /\ UNCHANGED table
                   \* insert_rows_json reports errors: return 0
                   \/ /\ table.count = 0
                      /\ bq_result' = "errors"
                      /\ num_inserted' = 0
                      /\ tpc' = AfterTableSave(0, saved_locally)
                      /\ UNCHANGED <<table, coords_file, saved_locally, local_writes,
                                     train_error>>
                   \* the rows are inserted; the validation query answers
                   \* or raises
                   \/ /\ table.count = 0
                      /\ table' = [run |-> run, count |-> Len(records')]
                      /\ bq_result' = "inserted"
                      /\ \/ /\ num_inserted' = Len(records')
                            /\ tpc' = AfterTableSave(Len(records'), saved_locally)
                            /\ UNCHANGED train_error
                         \/ /\ Raise("bigquery")
                            /\ UNCHANGED num_inserted
                      /\ UNCHANGED <<coords_file, saved_locally, local_writes>>
    /\ UNCHANGED <<corpus, pca_file, umap_file>>
    /\ UNCHANGED <<run, clusters_arg, embeddings_data, pca_model, umap_model,
                   n_clusters, optimal_k, cluster_labels>>
    /\ UNCHANGED <<serve_vars, call>>

\* Step 6, when AfterTableSave asks for it.
save_coordinates_locally ==
    /\ tpc = "save_local"
    /\ \/ /\ LocalSaveDone
          /\ tpc' = "open_pca"
          /\ UNCHANGED train_error
       \/ /\ LocalSaveRaises
          /\ Raise("save_locally")
    /\ UNCHANGED <<corpus, table, pca_file, umap_file>>
    /\ UNCHANGED <<run, clusters_arg, embeddings_data, pca_model, umap_model,
                   n_clusters, optimal_k, cluster_labels, cluster_label_map, records,
                   bq_result, num_inserted>>
    /\ UNCHANGED <<serve_vars, call>>

\* What save_models leaves alone.
SaveModelsFrame ==
    /\ UNCHANGED <<corpus, table, coords_file>>
    /\ UNCHANGED <<run, clusters_arg, embeddings_data, pca_model, umap_model,
                   n_clusters, optimal_k, cluster_labels, cluster_label_map, records,
                   bq_result, num_inserted, saved_locally, local_writes>>
    /\ UNCHANGED <<serve_vars, call>>

\* Step 7, save_models: open(pca_path, 'wb') truncates the file ...
save_models_open_pca ==
    /\ tpc = "open_pca"
    /\ \/ /\ pca_file' = [run |-> pca_model, whole |-> FALSE]
          /\ tpc' = "dump_pca"
          /\ UNCHANGED train_error
       \/ /\ Raise("save_models")
          /\ UNCHANGED pca_file
    /\ UNCHANGED umap_file
    /\ SaveModelsFrame

\* ... pickle.dump(self.pca_model, f) fills it ...
save_models_dump_pca ==
    /\ tpc = "dump_pca"
    /\ \/ /\ pca_file' = [run |-> pca_model, whole |-> TRUE]
          /\ tpc' = "open_umap"
          /\ UNCHANGED train_error
       \/ /\ Raise("save_models")
          /\ UNCHANGED pca_file
    /\ UNCHANGED umap_file
    /\ SaveModelsFrame

\* ... open(umap_path, 'wb') truncates the second file ...
save_models_open_umap ==
    /\ tpc = "open_umap"
    /\ \/ /\ umap_file' = [run |-> umap_model, whole |-> FALSE]
          /\ tpc' = "dump_umap"
          /\ UNCHANGED train_error
       \/ /\ Raise("save_models")
          /\ UNCHANGED umap_file
    /\ UNCHANGED pca_file
    /\ SaveModelsFrame

\* ... and pickle.dump(self.umap_model, f) fills it.
save_models_dump_umap ==
    /\ tpc = "dump_umap"
    /\ \/ /\ umap_file' = [run |-> umap_model, whole |-> TRUE]
          /\ tpc' = "visualize"
          /\ UNCHANGED train_error
       \/ /\ Raise("save_models")
          /\ UNCHANGED umap_file
    /\ UNCHANGED pca_file
    /\ SaveModelsFrame

\* Step 8, then the PIPELINE COMPLETE report.
visualize_3d_clusters ==
    /\ tpc = "visualize"
    /\ \/ /\ tpc' = "complete"
          /\ UNCHANGED train_error
       \/ Raise("visualize")
    /\ UNCHANGED <<run, clusters_arg, embeddings_data, pca_model, umap_model,
                   n_clusters, optimal_k, cluster_labels, cluster_label_map, records,
                   bq_result, num_inserted, saved_locally, local_writes>>
    /\ UNCHANGED <<store_vars, serve_vars, call>>

(* ========= scripts/dim_reduction.py: functions called alone =========== *)

\* determine_optimal_clusters(max_k) over n points, KMeans and
\* silhouette_score giving the inertia and the score of each k tried.
SelectKCalls(max_k, n) ==
    {[fn |-> "determine_optimal_clusters", applied |-> FALSE,
      max_k |-> max_k, n |-> n, inertias |-> inertias,
      silhouette_scores |-> scores,
      evaluated |-> {}, returned |-> 0] :
        inertias \in [k_range(max_k, n) -> 0..MaxScore],
        scores \in [k_range(max_k, n) -> 0..MaxScore]}

\* The loop runs over k_range; np.argmax of an empty list raises ValueError
\* (returned stays 0).
apply_determine_optimal_clusters ==
    /\ call.fn = "determine_optimal_clusters"
    /\ ~call.applied
    /\ call' =
           [call EXCEPT
               !.applied = TRUE,
               !.evaluated = k_range(call.max_k, call.n),
               !.returned =
                   IF k_range(call.max_k, call.n) = {}
                      THEN 0
                      ELSE determine_optimal_clusters(
                               call.max_k, call.n, call.inertias,
                               call.silhouette_scores)]
    /\ UNCHANGED <<store_vars, train_vars, serve_vars>>

\* Occupation lists for generate_cluster_labels called alone: none, one,
\* two, and four occupations.
LabelOccChoices ==
    {<<>>, <<"poet">>, <<"actor">>, <<"critic", "poet">>,
     <<"poet", "critic", "painter", "actor">>}

\* generate_cluster_labels() over self.n_clusters = k, self.cluster_labels
\* = labels and self.embeddings_data = data.
LabelCalls(k, data) ==
    {[fn |-> "generate_cluster_labels", applied |-> FALSE,
      k |-> k, labels |-> labels, data |-> data, result |-> <<>>] :
        labels \in KMeansLabels(k, Len(data))}

apply_generate_cluster_labels ==
    /\ call.fn = "generate_cluster_labels"
    /\ ~call.applied
    /\ call' =
           [call EXCEPT
               !.applied = TRUE,
               !.result = generate_cluster_labels(call.k, call.labels, call.data)]
    /\ UNCHANGED <<store_vars, train_vars, serve_vars>>

InitLabels ==
    /\ Start({<<>>}, {NoTable})
    /\ \E k \in 1..MaxK :
          \E n \in 0..MaxN :
              \E data \in [1..n -> LabelOccChoices] : call \in LabelCalls(k, data)

SpecLabels == InitLabels /\ [][apply_generate_cluster_labels]_vars

InitSelectK ==
    /\ Start({<<>>}, {NoTable})
    /\ \E max_k \in 1..MaxKTried :
          \E n \in 0..MaxPoints : call \in SelectKCalls(max_k, n)

SpecSelectK == InitSelectK /\ [][apply_determine_optimal_clusters]_vars

(* =========================== specifications =========================== *)

Pipeline ==
    \/ load_embeddings_from_bigquery
    \/ apply_pca
    \/ apply_umap
    \/ perform_clustering
    \/ save_coordinates_to_bigquery
    \/ save_coordinates_locally
    \/ save_models_open_pca
    \/ save_models_dump_pca
    \/ save_models_open_umap
    \/ save_models_dump_umap
    \/ visualize_3d_clusters

Training ==
    \/ main
    \/ Pipeline

Loading ==
    \/ StartupLoadPca
    \/ StartupLoadUmap
    \/ StartupHandoff

\* The serving process as the framework runs it: the startup handler once.
startup_event == StartupCheck(1)

Next ==
    \/ Training
    \/ startup_event
    \/ Loading
    \/ generate_user_embedding

Spec == Init /\ [][Next]_vars

\* The service taken alone, started after one training run over one person
\* has completed.
InitTrained ==
    /\ corpus = <<<<"poet">>>>
    /\ table = [run |-> 1, count |-> 1]
    /\ coords_file = [run |-> 1, whole |-> TRUE]
    /\ pca_file = [run |-> 1, whole |-> TRUE]
    /\ umap_file = [run |-> 1, whole |-> TRUE]
    /\ tpc = "complete"
    /\ run = 1
    /\ clusters_arg = 1
    /\ embeddings_data = <<<<"poet">>>>
    /\ pca_model = 1
    /\ umap_model = 1
    /\ n_clusters = 1
    /\ optimal_k = 0
    /\ cluster_labels = <<0>>
    /\ cluster_label_map = [cluster_id \in {0} |-> "poet"]
    /\ records = <<[person_id |-> 1, cluster_id |-> 0, cluster_label |-> "poet"]>>
    /\ bq_result = "inserted"
    /\ num_inserted = 1
    /\ saved_locally = TRUE
    /\ local_writes = 1
    /\ train_error = ""
    /\ lpc = "idle"
    /\ loads = 0
    /\ _models_loaded = FALSE
    /\ _pca_model = 0
    /\ _umap_model = 0
    /\ es_pca_model = 0
    /\ es_umap_model = 0
    /\ load_fault = ""
    /\ response = NoResponse
    /\ answered = NeverAnswered
    /\ call = NoCall

generate_user_embedding_any == Handle(Requests)

NextQuery ==
    \/ startup_event
    \/ Loading
    \/ generate_user_embedding_any

SpecQuery == InitTrained /\ [][NextQuery]_vars

\* The two processes, requests carrying either narrative.
generate_user_embedding_repeated == Handle(RepeatedRequests)

NextServe ==
    \/ Training
    \/ startup_event
    \/ Loading
    \/ generate_user_embedding_repeated

SpecServe == Init /\ [][NextServe]_vars

\* One run started from the command line with --clusters left at its
\* default or given as 0, over a corpus of two to MaxN persons.
CliCorpora == {[i \in 1..n |-> <<"poet">>] : n \in 2..MaxN}

InitCli == InitOver(CliCorpora, {NoTable, [run |-> 0, count |-> 1]})

main_cli == run = 0 /\ Main({0, DefaultClusters})

TrainingCli ==
    \/ main_cli
    \/ Pipeline

SpecCli == InitCli /\ [][TrainingCli]_vars

\* One run of the training pipeline alone, over every corpus of up to MaxN
\* persons.
main_once == run = 0 /\ main

TrainingOnce ==
    \/ main_once
    \/ Pipeline

SpecTrain == InitTrain /\ [][TrainingOnce]_vars

\* The startup handler invoked again in the same process (the application
\* started anew over the same module globals).
startup_event_again == StartupCheck(MaxLoads)

NextReload ==
    \/ Training
    \/ startup_event_again
    \/ Loading
    \/ generate_user_embedding

SpecReload == Init /\ [][NextReload]_vars

(* ============================== claims ================================ *)

\* C1: the service starts Unready; the readiness flag is only ever raised by
\* the last step of the startup load, and once raised no step of any
\* handler, the load itself included, lowers it again.
C1_ReadyOnceNeverUnready ==
    /\ ~_models_loaded
    /\ [][/\ _models_loaded => _models_loaded'
          /\ ~_models_loaded /\ _models_loaded' =>
                 lpc = "handoff" /\ lpc' = "idle"]_vars

\* A second invocation of the load failed, and a request was handled, while
\* the service was Ready.
C1_Witness ==
    /\ _models_loaded
    /\ loads > 1
    /\ lpc = "idle"
    /\ load_fault # ""
    /\ response.status # ""

\* C2: a generate-embedding request handled while the flag is unset is
\* answered 503, whatever in it or behind it fails.
C2_UnreadyIsUnavailable ==
    response # NoResponse /\ ~response.ready => response.status = "503"

\* A request was handled after a load that failed.
C2_Witness ==
    /\ response.status = "503"
    /\ ~response.ready
    /\ load_fault = "pca"

\* C3: whichever step of the startup load fails, the handler returns (the
\* exception does not leave it) and the service is Unready.
C3_LoadFailureLeavesUnready ==
    /\ lpc # "raised"
    /\ load_fault # "" => lpc = "idle" /\ ~_models_loaded

\* The second file could not be read after the first had been.
C3_Witness ==
    /\ load_fault = "umap"
    /\ _pca_model # 0
    /\ lpc = "idle"
    /\ ~_models_loaded

\* C4: what a startup load has read, and what an answered request has used,
\* comes from one training run: the two reduction models loaded, and the
\* models and the table rows (clusters and coordinates) behind an answer.
C4_ReadersSeeOneRun ==
    /\ _pca_model # 0 /\ _umap_model # 0 => _pca_model = _umap_model
    /\ response.status = "200" =>
           response.pca = response.umap /\ response.umap = response.table

\* C5: when a run completes (its table save having reported no insert
\* error), the table rows, the local file and both model files are that
\* run's.
C5_CompleteRunSupersedes ==
    tpc = "complete" /\ bq_result # "errors" =>
        /\ table.run = run
        /\ coords_file = [run |-> run, whole |-> TRUE]
        /\ pca_file = [run |-> run, whole |-> TRUE]
        /\ umap_file = [run |-> run, whole |-> TRUE]

\* C6: whenever both model files hold a complete model, the two are of the
\* same training run.
C6_PersistedModelOfOneRun ==
    pca_file.whole /\ umap_file.whole => pca_file.run = umap_file.run

\* C7: a request is handled only after the startup load has returned, and
\* once a load has made the service Ready no later invocation changes the
\* loaded models.
C7_LoadOneShot ==
    [][/\ response' # response => loads >= 1 /\ lpc = "idle"
       /\ _models_loaded =>
              UNCHANGED <<_pca_model, _umap_model, es_pca_model,
                          es_umap_model>>]_vars

\* The number of records of cluster_id (what np.unique counts).
MemberCount(cluster_id) ==
    Cardinality({i \in 1..Len(records) : records[i].cluster_id = cluster_id})

RECURSIVE MemberCountsBelow(_)
MemberCountsBelow(k) ==
    IF k <= 0 THEN 0 ELSE MemberCount(k - 1) + MemberCountsBelow(k - 1)

\* C8: after a clustering with k clusters over n points, every point's and
\* every record's cluster id is in 0..k-1 and has a label in the label map
\* (no lookup of it fails), the record carries that label, there is one
\* record per point, and the member counts of clusters 0..k-1 sum to n.
C8_ClusterIdsLabelledAndCounted ==
    /\ train_error # "KeyError"
    /\ \A i \in 1..Len(cluster_labels) :
           cluster_labels[i] \in 0..(n_clusters - 1)
    /\ records # <<>> =>
           /\ Len(records) = Len(embeddings_data)
           /\ MemberCountsBelow(n_clusters) = Len(embeddings_data)
           /\ \A i \in 1..Len(records) :
                  /\ records[i].cluster_id = cluster_labels[i]
                  /\ records[i].cluster_id \in DOMAIN cluster_label_map
                  /\ records[i].cluster_label =
                         cluster_label_map[records[i].cluster_id]

\* A run with the count selected by score completed over three persons, two
\* of them in different clusters.
C8_Witness ==
    /\ tpc = "complete"
    /\ clusters_arg = 0
    /\ Len(records) = 3
    /\ records[1].cluster_id # records[2].cluster_id

\* C9: a run over an empty corpus ends with an error.
C9_EmptyCorpusIsError ==
    tpc \in Ended /\ Len(corpus) = 0 => tpc = "failed"

\* C10: after the table save has reported insert errors or raised, the run
\* neither writes a model file nor completes.
C10_TableFailureIsFatal ==
    bq_result \in {"errors", "raised"} =>
        tpc \notin {"dump_pca", "open_umap", "dump_umap", "visualize",
                    "complete"}

\* C20: whenever the readiness flag is set, both module-level models are
\* loaded (non-null) and the embedding service holds a PCA and a UMAP model.
C20_ReadyImpliesModelsHandedOver ==
    _models_loaded =>
        /\ _pca_model # 0
        /\ _umap_model # 0
        /\ es_pca_model # 0
        /\ es_umap_model # 0

\* The flag is set, and a later invocation of the load has read a PCA model
\* and failed on the UMAP file.
C20_Witness ==
    /\ _models_loaded
    /\ loads > 1
    /\ load_fault = "umap"
    /\ lpc = "idle"

\* The converse of C20 fails: a PCA model is loaded while the flag is unset.
C20_ConverseFails ==
    /\ ~_models_loaded
    /\ _pca_model # 0
    /\ lpc = "idle"

\* C19: a run that has completed wrote the local coordinate file exactly
\* once, and the file holds that run's coordinates, whichever path the
\* table save took (insert skipped, rows inserted, insert errors reported).
C19_LocalFileWrittenOnce ==
    tpc = "complete" =>
        /\ bq_result \in {"skipped", "inserted", "errors"}
        /\ local_writes = 1
        /\ coords_file = [run |-> run, whole |-> TRUE]

\* A second run completed after finding rows in the table: it wrote the file
\* inside the table save, and step 6 did not write it again.
C19_Witness ==
    /\ tpc = "complete"
    /\ run = 2
    /\ bq_result = "skipped"
    /\ saved_locally
    /\ local_writes = 1

\* Step 4 has handed a cluster count to KMeans.
Partitioned ==
    \/ tpc \notin {"idle", "load", "pca", "umap", "cluster", "returned", "failed"}
    \/ tpc = "failed" /\ train_error \notin
            {"load_embeddings", "pca", "umap", "determine_optimal_clusters"}

\* C13 as stated: a run started with the default arguments partitions with
\* the count determine_optimal_clusters returned for it.
C13_DefaultRunAutoSelects ==
    Partitioned /\ clusters_arg = DefaultClusters =>
        optimal_k # 0 /\ n_clusters = optimal_k

\* C13 amended: a run partitions with the count determine_optimal_clusters
\* returned for it exactly when it was started with --clusters 0; any other
\* run, the default one included, partitions with the count of its argument
\* (10 by default) and never selects one.
C13_AutoSelectsOnlyOnZero ==
    Partitioned =>
        IF clusters_arg = 0
           THEN /\ optimal_k \in 2..Min(DefaultMaxK, Len(embeddings_data) - 1)
                /\ n_clusters = optimal_k
           ELSE /\ optimal_k = 0
                /\ n_clusters = clusters_arg

\* A run started with --clusters 0 has completed with a selected count.
C13_Witness ==
    /\ tpc = "complete"
    /\ clusters_arg = 0
    /\ n_clusters = optimal_k
    /\ optimal_k = 2

\* C12: determine_optimal_clusters tries exactly the counts k with
\* 2 <= k <= min(max_k, n - 1) and returns the one of them with the highest
\* silhouette score, the lowest such k when several share it, whatever the
\* inertias (and so the elbow) are.
C12_SelectsByScoreAlone ==
    call.fn = "determine_optimal_clusters" /\ call.applied =>
        LET candidates == {k \in 2..(MaxKTried + MaxPoints) :
                              k <= call.max_k /\ k <= call.n - 1}
            score == call.silhouette_scores
        IN /\ call.evaluated = candidates
           /\ candidates = {} => call.returned = 0
           /\ candidates # {} =>
                  /\ call.returned \in candidates
                  /\ \A k \in candidates :
                         /\ score[k] <= score[call.returned]
                         /\ score[k] = score[call.returned] =>
                                k >= call.returned

\* Four counts were tried, 3 and 4 share the best score, 3 was returned, and
\* the elbow of the inertias is another count.
C12_Witness ==
    /\ call.fn = "determine_optimal_clusters"
    /\ call.applied
    /\ call.evaluated = {2, 3, 4, 5}
    /\ call.silhouette_scores[2] < call.silhouette_scores[3]
    /\ call.silhouette_scores[3] = call.silhouette_scores[4]
    /\ call.returned = 3
    /\ optimal_k_elbow(call.evaluated, call.inertias) = 2

\* How often occupation occ is listed by the members of cluster_id in the
\* call.
Occurrences(occ, cluster_id) ==
    Cardinality({ij \in UNION {{<<i, j>> : j \in 1..Len(call.data[i])} :
                                  i \in 1..Len(call.data)} :
                    /\ call.labels[ij[1]] = cluster_id
                    /\ call.data[ij[1]][ij[2]] = occ})

\* C17: every cluster id below k gets a label; it is "Cluster {id}" when no
\* member lists an occupation (a cluster without members included), and
\* otherwise the ", "-join of min(3, number of occupations listed)
\* different occupations, in non-increasing order of their counts, none
\* left out having a higher count than one taken.
C17_LabelIsTopThree ==
    call.fn = "generate_cluster_labels" /\ call.applied =>
        /\ DOMAIN call.result = 0..(call.k - 1)
        /\ \A c \in 0..(call.k - 1) :
               LET listed == {occ \in UNION {{l[j] : j \in 1..Len(l)} :
                                                l \in LabelOccChoices} :
                                 Occurrences(occ, c) > 0}
                   m == Min(3, Cardinality(listed))
                   joined(top) ==
                       IF m = 1 THEN top[1]
                       ELSE IF m = 2 THEN top[1] \o ", " \o top[2]
                       ELSE top[1] \o ", " \o top[2] \o ", " \o top[3]
               IN IF listed = {}
                     THEN call.result[c] = "Cluster " \o ToString(c)
                     ELSE \E top \in [1..m -> listed] :
                             /\ \A i, j \in 1..m :
                                    i < j =>
                                        /\ top[i] # top[j]
                                        /\ Occurrences(top[i], c) >=
                                               Occurrences(top[j], c)
                             /\ \A occ \in listed :
                                    (\A i \in 1..m : top[i] # occ) =>
                                        Occurrences(occ, c) <=
                                            Occurrences(top[m], c)
                             /\ call.result[c] = joined(top)

\* Cluster 0 lists four occupations, the last of them twice; cluster 1 has
\* no member.
C17_Witness ==
    /\ call.fn = "generate_cluster_labels"
    /\ call.applied
    /\ call.k = 2
    /\ call.data = <<<<"poet", "critic", "painter", "actor">>, <<"actor">>>>
    /\ call.labels = <<0, 0>>
    /\ call.result[0] = "actor, poet, critic"
    /\ call.result[1] = "Cluster 1"

\* C11: a query whose vector has another length than 768 and reaches the
\* projection gets an outcome of its own, neither an answer nor the
\* internal-error nor the unavailable outcome.
C11_MismatchIsRejectedDistinctly ==
    /\ response.request # NoRequest
    /\ response.request.length # EMBEDDING_DIMENSION
    => response.status \notin {"200", "500", "503"}

\* C11, second half: whatever a request carries, handling it leaves the
\* loaded models, the readiness flag and every artifact as they were.
C11_RejectionLeavesState ==
    [][response' # response =>
          UNCHANGED <<store_vars, _models_loaded, _pca_model, _umap_model,
                      es_pca_model, es_umap_model>>]_vars

PlaceOf(request, person_id) ==
    request.all_coordinates[
        CHOOSE i \in 1..Len(request.all_person_ids) :
            request.all_person_ids[i] = person_id]

Nearer(point, request, a, b) ==
    \/ SqDist(point, PlaceOf(request, a)) < SqDist(point, PlaceOf(request, b))
    \/ /\ SqDist(point, PlaceOf(request, a)) = SqDist(point, PlaceOf(request, b))
       /\ a < b

\* The similar persons of an answer are persons of the database, each with
\* its distance from the user's point, the nearer before the farther and the
\* lower id before the higher among persons as near.
SimilarAreSorted ==
    LET point == response.user_coordinates
        similar == response.similar_persons
    IN /\ \A i \in 1..Len(similar) :
             /\ \E j \in 1..Len(response.request.all_person_ids) :
                    response.request.all_person_ids[j] = similar[i].person_id
             /\ similar[i].distance
                    = Distance(point, PlaceOf(response.request, similar[i].person_id))
       /\ \A i, j \in 1..Len(similar) :
             i < j => Nearer(point, response.request,
                             similar[i].person_id, similar[j].person_id)

\* C15 as stated: the similar persons of an answer are sorted by distance,
\* then id, and there are min(10, corpus size) of them.
C15_SimilarAreTopKSorted ==
    response.status = "200" =>
        /\ SimilarAreSorted
        /\ Len(response.similar_persons)
               = Min(TopK, Len(response.request.all_person_ids))

\* C15 as amended: the similar persons of an answer are sorted by distance,
\* then id, and they are those of the min(10, corpus size) nearest persons
\* whose record the database still finds: never more than min(10, corpus
\* size), and as many when every record is found.
C15_SimilarAreFoundTopKSorted ==
    response.status = "200" =>
        LET point == response.user_coordinates
            similar == response.similar_persons
            ids == {response.request.all_person_ids[i] :
                        i \in 1..Len(response.request.all_person_ids)}
            top == {id \in ids :
                       Cardinality({other \in ids :
                           Nearer(point, response.request, other, id)}) < TopK}
        IN /\ SimilarAreSorted
           /\ {similar[i].person_id : i \in 1..Len(similar)}
                  = top \cap response.request.found
           /\ Len(similar) <= Min(TopK, Cardinality(ids))
           /\ top \subseteq response.request.found
                  => Len(similar) = Min(TopK, Cardinality(ids))

\* Of eleven persons, several as near as each other and one of the ten
\* nearest without a record, nine are returned.
C15_Witness ==
    /\ response.status = "200"
    /\ Len(response.request.all_person_ids) = TopK + 1
    /\ Len(response.similar_persons) = TopK - 1
    /\ \E i \in 1..(TopK - 2) :
          response.similar_persons[i].distance
              = response.similar_persons[i + 1].distance

\* C16: the similarity score of every similar person is
\* max(0, 1 - distance / 20): between 0 and 1 for a distance of at most 20,
\* 0 for a distance of 20 or more, and of two persons of an answer the nearer
\* has no lower score.
C16_SimilarityScore ==
    LET similar == response.similar_persons
        D_max == Scale * max_distance
    IN /\ \A i \in 1..Len(similar) :
             /\ similar[i].similarity_score
                    = Max(0, D_max - similar[i].distance)
             /\ similar[i].distance \in 0..D_max
                    => similar[i].similarity_score \in 0..D_max
             /\ similar[i].distance >= D_max
                    => similar[i].similarity_score = 0
       /\ \A i, j \in 1..Len(similar) :
             similar[i].distance <= similar[j].distance
                 => similar[i].similarity_score >= similar[j].similarity_score

\* An answer with a person nearer than 20, scored between 0 and 1, and a
\* person farther than 20, scored 0.
C16_Witness ==
    /\ response.status = "200"
    /\ Len(response.similar_persons) = 2
    /\ response.similar_persons[1].distance \in 1..(Scale * max_distance - 1)
    /\ response.similar_persons[1].similarity_score
           \in 1..(Scale * max_distance - 1)
    /\ response.similar_persons[2].distance > Scale * max_distance
    /\ response.similar_persons[2].similarity_score = 0

\* C18: handling a request changes neither the loaded models nor the
\* readiness flag, and a vector answered before under the same load gets the
\* coordinates it got then, whatever was handled or trained in between.
C18_ServingIsReadOnlyAndDeterministic ==
    [][response' # response \/ answered' # answered =>
          /\ UNCHANGED <<_models_loaded, _pca_model, _umap_model,
                         es_pca_model, es_umap_model>>
          /\ \A vector \in Vectors :
                answered[vector].loads = loads =>
                    answered'[vector].user_coordinates
                        = answered[vector].user_coordinates]_vars

\* A vector answered before and after a second training run rewrote the
\* model files, the other vector answered too, and an error answered last.
C18_Witness ==
    /\ answered[0].loads = loads
    /\ answered[0].since = 1
    /\ answered[0].until = 2
    /\ answered[1].loads = loads
    /\ umap_file = [run |-> 2, whole |-> TRUE]
    /\ response.status = "500"

=============================================================================
